---- MODULE Spec2Model ----
(***************************************************************************)
(* Challenge-completion lifecycle and point settlement of FantaVacanze.    *)
(*                                                                         *)
(* The backend is one Express process holding ONE MySQL connection `db`    *)
(* that every request handler uses.  A handler is a chain of callbacks:    *)
(* each callback runs when the query it queued has been answered and       *)
(* queues the next one.  The connection executes queued commands in FIFO   *)
(* order, so the queries of requests in flight interleave at query         *)
(* boundaries.  beginTransaction / commit / rollback are commands on that  *)
(* same connection, so the transaction they delimit is the connection's,   *)
(* not the request's.                                                      *)
(***************************************************************************)
EXTENDS Integers, Sequences, FiniteSets, TLC

\* ------------------------------------------------------------------ bounds
MaxRequests == 3        \* requests that arrive in a run
MaxFailures == 1        \* database commands that answer with an error

\* ------------------------------------------------------------- value sets
Users == {1, 2, 3}
Groups == {1, 2}
ChallengeIds == {1, 2, 3}
PointValues == {10, 20}
Handlers == {1, 2}      \* requests that can be in flight together
CompletionIds == 1..MaxRequests
Missing == 0            \* an absent request field (falsy in the handler's validation)
GroupInputs == Groups \cup {Missing}
\* a value of the JSON body: a number, a string of digits (n is the number the
\* digits spell), or an absent field
Num(n) == [type |-> "number", n |-> n]
Str(n) == [type |-> "string", n |-> n]
Undefined == [type |-> "undefined", n |-> Missing]
UserInputs == {Num(1), Num(2), Undefined}     \* approver_id of the request body
SubmitterInputs == {1, Missing}      \* user 1 submits; users 1 and 2 approve
Editable == {1}                      \* the challenge whose points the catalog edit changes
ChallengeInputs == {1, 2, Missing, 4}   \* 4: an id with no row in challenges

VARIABLES
    challenges,   \* catalog table: id -> [points, ripetibile, status, is_active]
    db,           \* what the connection sees: challenge_completions, users, group_users,
                  \* group_challenges
    saved,        \* the tables as of the last commit point of the connection
    inTx,         \* the connection has an open transaction
    insertId,     \* AUTO_INCREMENT of challenge_completions
    queue,        \* the connection's command queue: for each waiting command, the
                  \* closure (request fields and locals) of the callback it will run
    res,          \* the response sent last: [op, status, completion_id, points,
                  \* completions]; completion_id is the completion the request
                  \* created or named
    sent,         \* responses sent (calls of res.json)
    arrived,      \* requests that have arrived
    settled,      \* per completion id: how many Approve requests answered 200
    failures      \* database commands that have answered with an error

vars == <<challenges, db, saved, inTx, insertId, queue, res, sent, arrived, settled,
          failures>>

\* -------------------------------------------------------------- the tables
NoRow == [group_id |-> 0, user_id |-> 0, challenge_id |-> 0, points |-> 0,
          approved |-> 0, approved_by |-> 0]

\* a group_users row; INSERT INTO group_users (group_id, user_id, role) leaves points
\* at its default
Member(g, u, role) == [group_id |-> g, user_id |-> u, role |-> role, points |-> 0]

\* group_users rows present at the start, in insertion order: the creator of a
\* group is its admin; user 1 is not in group 2
InitMembers == <<Member(1, 1, "admin"), Member(1, 2, "member"), Member(1, 3, "member"),
                 Member(2, 2, "admin")>>

\* challenge 2 is a penalty, challenge 3 has been switched off
InitChallenges ==
    [c \in ChallengeIds |->
        IF c = 1 THEN [points |-> 20, ripetibile |-> "n", status |-> "positive", is_active |-> 1]
        ELSE IF c = 2
        THEN [points |-> 10, ripetibile |-> "y", status |-> "negative", is_active |-> 1]
        ELSE [points |-> 10, ripetibile |-> "y", status |-> "positive", is_active |-> 0]]

\* group_challenges rows <<group_id, challenge_id>> present at the start: every
\* group has selected every challenge of the catalog
InitSelection == {<<g, c>> : g \in Groups, c \in ChallengeIds}

InitDb ==
    [challenge_completions |-> << >>,
     users |-> [u \in Users |-> 0],
     group_users |-> InitMembers,
     group_challenges |-> InitSelection]

\* ------------------------------------------------------------ the requests
\* pre: the tables as the request found them (kept while the request is in flight)
NoPre == [challenge_completions |-> << >>, users |-> << >>, group_users |-> << >>,
          group_challenges |-> {}]

Idle ==
    [op |-> "none", pc |-> "idle", group_id |-> 0, user_id |-> 0, challenge_id |-> 0,
     completionId |-> 0, approver_id |-> Undefined, points |-> 0, isRepeatable |-> FALSE,
     completion |-> NoRow, challenge_ids |-> {}, code |-> "", pre |-> NoPre]

\* a response: the handler, the status, the completion it created or named, the
\* body's points field (no handler sets one), and for a listing the rows in its body
Answer(op, s, id) ==
    [op |-> op, status |-> s, completion_id |-> id, points |-> Undefined,
     completions |-> << >>]

NoResponse == Answer("none", 0, 0)

\* the request whose command the connection answers next
cur == Head(queue)

\* the command at the head of the queue belongs to step pc of handler op
Turn(op, pc) == queue /= << >> /\ cur.op = op /\ cur.pc = pc

\* res.status(s).json(...): the handler answers and queues nothing more
Respond(s) ==
    /\ queue' = Tail(queue)
    /\ res' = Answer(cur.op, s, cur.completionId)
    /\ sent' = sent + 1

\* the callback queues the handler's next command
Continue(closure) ==
    /\ queue' = Append(Tail(queue), closure)
    /\ res' = res
    /\ sent' = sent

\* a request is accepted and its first command queued
Accept(closure) ==
    /\ queue' = Append(queue, closure)
    /\ res' = res
    /\ sent' = sent

CanArrive == arrived < MaxRequests /\ Len(queue) < Cardinality(Handlers)

\* a command may answer with an error, at most MaxFailures times in a run
MayFail(ok) == ok \/ failures < MaxFailures
CountFailure(ok) == failures' = IF ok THEN failures ELSE failures + 1

\* --------------------------------------------- the connection's transaction
\* a write outside a transaction is committed at once (autocommit)
Write(newDb) ==
    /\ db' = newDb
    /\ saved' = IF inTx THEN saved ELSE newDb
    /\ inTx' = inTx

\* START TRANSACTION commits whatever transaction the connection has open
BeginTransaction ==
    /\ saved' = db
    /\ inTx' = TRUE
    /\ db' = db

Commit ==
    /\ saved' = db
    /\ inTx' = FALSE
    /\ db' = db

\* ROLLBACK undoes every write of the connection since its last commit point
Rollback ==
    /\ db' = saved
    /\ saved' = saved
    /\ inTx' = FALSE

NoDbChange == UNCHANGED <<db, saved, inTx>>

Init ==
    /\ challenges = InitChallenges
    /\ db = InitDb
    /\ saved = InitDb
    /\ inTx = FALSE
    /\ insertId = 1
    /\ queue = << >>
    /\ res = NoResponse
    /\ sent = 0
    /\ arrived = 0
    /\ settled = [id \in CompletionIds |-> 0]
    /\ failures = 0

\* ------------------------------------------ the catalog, edited from outside
\* the service only reads challenges; its rows are edited directly in the store
EditCatalog(c, p) ==
    /\ challenges[c].points /= p
    /\ challenges' = [challenges EXCEPT ![c].points = p]
    /\ UNCHANGED <<db, saved, inTx, insertId, queue, res, sent, arrived, settled,
                   failures>>

\* ------------------------------------------- POST /api/challenge-completions
\* rows of challenge_completions WHERE group_id = g AND user_id = u AND challenge_id = c
CompletionsOf(g, u, c) ==
    {id \in DOMAIN db.challenge_completions :
        /\ db.challenge_completions[id].group_id = g
        /\ db.challenge_completions[id].user_id = u
        /\ db.challenge_completions[id].challenge_id = c}

\* variant of IsDuplicate that takes only approved prior completions as blocking
IsDuplicateApprovedOnly(isRepeatable, completions) ==
    ~isRepeatable /\ \E id \in completions : db.challenge_completions[id].approved = 1

\* if (!isRepeatable && completions.length > 0): the submission is a duplicate
IsDuplicate(isRepeatable, completions) == ~isRepeatable /\ completions /= {}

\* variant of InsertCompletion that credits the points to the submitter at once
InsertCompletionCredited(g, u, c, points) ==
    [db EXCEPT !.challenge_completions =
                  [id \in DOMAIN db.challenge_completions \cup {insertId} |->
                      IF id = insertId
                      THEN [group_id |-> g, user_id |-> u, challenge_id |-> c,
                            points |-> points, approved |-> 0, approved_by |-> 0]
                      ELSE db.challenge_completions[id]],
               !.users[u] = @ + points]

\* INSERT INTO challenge_completions (...) VALUES (g, u, c, ..., points, ..., 0)
InsertCompletion(g, u, c, points) ==
    [db EXCEPT !.challenge_completions =
        [id \in DOMAIN db.challenge_completions \cup {insertId} |->
            IF id = insertId
            THEN [group_id |-> g, user_id |-> u, challenge_id |-> c, points |-> points,
                  approved |-> 0, approved_by |-> 0]
            ELSE db.challenge_completions[id]]]

\* variant of SubmitStart that accepts a request whatever its body holds
SubmitStartUnvalidated(g, u, c) ==
    /\ CanArrive
    /\ Accept([Idle EXCEPT !.op = "submit", !.pc = "challenge", !.group_id = g,
                           !.user_id = u, !.challenge_id = c, !.pre = db])
    /\ arrived' = arrived + 1
    /\ UNCHANGED <<challenges, db, saved, inTx, insertId, settled, failures>>

\* if (!group_id || !user_id || !challenge_id) return res.status(400)
SubmitStart(g, u, c) ==
    /\ CanArrive
    /\ IF g = Missing \/ u = Missing \/ c = Missing
       THEN /\ queue' = queue
            /\ res' = Answer("submit", 400, 0)
            /\ sent' = sent + 1
       ELSE Accept([Idle EXCEPT !.op = "submit", !.pc = "challenge", !.group_id = g,
                                !.user_id = u, !.challenge_id = c, !.pre = db])
    /\ arrived' = arrived + 1
    /\ UNCHANGED <<challenges, db, saved, inTx, insertId, settled, failures>>

\* SELECT points, ripetibile FROM challenges WHERE id = ?
SubmitSelectChallenge ==
    /\ Turn("submit", "challenge")
    /\ \E ok \in BOOLEAN :
        /\ MayFail(ok)
        /\ CountFailure(ok)
        /\ IF ~ok
           THEN Respond(500)
           ELSE IF cur.challenge_id \notin DOMAIN challenges
           THEN Respond(404)
           ELSE Continue([cur EXCEPT
                    !.points = challenges[cur.challenge_id].points,
                    !.isRepeatable = (challenges[cur.challenge_id].ripetibile = "y"),
                    !.pc = "check"])
    /\ NoDbChange
    /\ UNCHANGED <<challenges, insertId, arrived, settled>>

\* SELECT * FROM challenge_completions WHERE group_id = ? AND user_id = ? AND challenge_id = ?
SubmitCheck ==
    /\ Turn("submit", "check")
    /\ \E ok \in BOOLEAN :
        /\ MayFail(ok)
        /\ CountFailure(ok)
        /\ IF ~ok
           THEN Respond(500)
           ELSE IF IsDuplicate(cur.isRepeatable,
                               CompletionsOf(cur.group_id, cur.user_id, cur.challenge_id))
           THEN Respond(409)
           ELSE Continue([cur EXCEPT !.pc = "begin"])
    /\ NoDbChange
    /\ UNCHANGED <<challenges, insertId, arrived, settled>>

\* req.db.beginTransaction: on error the handler answers 500, else queues `next`
Begin(next) ==
    \E ok \in BOOLEAN :
        /\ MayFail(ok)
        /\ CountFailure(ok)
        /\ IF ~ok
           THEN /\ Respond(500)
                /\ NoDbChange
           ELSE /\ Continue([cur EXCEPT !.pc = next])
                /\ BeginTransaction

SubmitBegin ==
    /\ Turn("submit", "begin")
    /\ Begin("insert")
    /\ UNCHANGED <<challenges, insertId, arrived, settled>>

\* the INSERT; on success the handler answers 201 and issues no commit
SubmitInsert ==
    /\ Turn("submit", "insert")
    /\ \E ok \in BOOLEAN :
        /\ MayFail(ok)
        /\ CountFailure(ok)
        /\ IF ~ok
           THEN /\ Continue([cur EXCEPT !.pc = "rollback"])
                /\ NoDbChange
                /\ insertId' = insertId
           ELSE /\ queue' = Tail(queue)
                /\ res' = Answer("submit", 201, insertId)
                /\ sent' = sent + 1
                /\ Write(InsertCompletion(cur.group_id, cur.user_id, cur.challenge_id,
                                          cur.points))
                /\ insertId' = insertId + 1
    /\ UNCHANGED <<challenges, arrived, settled>>

\* variant of RollbackAndFail that answers 500 without issuing the rollback
FailWithoutRollback ==
    /\ NoDbChange
    /\ Respond(500)

\* req.db.rollback(() => res.status(500)...)
RollbackAndFail ==
    /\ Rollback
    /\ Respond(500)

SubmitRollback ==
    /\ Turn("submit", "rollback")
    /\ RollbackAndFail
    /\ UNCHANGED <<challenges, insertId, arrived, settled, failures>>

\* -------------------------- POST /api/challenge-completions/:completionId/approve
ApproveStart(id, a) ==
    /\ CanArrive
    /\ IF a.type = "undefined"
       THEN /\ queue' = queue
            /\ res' = Answer("approve", 400, id)
            /\ sent' = sent + 1
       ELSE Accept([Idle EXCEPT !.op = "approve", !.pc = "select", !.completionId = id,
                                !.approver_id = a, !.pre = db])
    /\ arrived' = arrived + 1
    /\ UNCHANGED <<challenges, db, saved, inTx, insertId, settled, failures>>

\* a === b for a number a read from the store and a value b of the JSON body:
\* true only when b is a number too
StrictEquals(a, b) == b.type = "number" /\ b.n = a

\* the value the store assigns to an INT column from a query parameter: a string
\* of digits is converted to the number it spells
SqlInt(b) == b.n

\* variant of ApproveRejects without the already-approved check
ApproveRejectsSelfOnly(completion, approver_id) ==
    IF StrictEquals(completion.user_id, approver_id) THEN 400 ELSE 0

\* the checks the handler makes on the row it has read: the status it answers, or 0
ApproveRejects(completion, approver_id) ==
    IF completion.approved = 1 THEN 409
    ELSE IF StrictEquals(completion.user_id, approver_id) THEN 400
    ELSE 0

\* variant of ApproveRow that takes the points from the catalog at approval time
ApproveRowCatalogPoints(id) ==
    [db.challenge_completions[id] EXCEPT
        !.points = challenges[db.challenge_completions[id].challenge_id].points]

\* SELECT * FROM challenge_completions WHERE id = ?
ApproveRow(id) == db.challenge_completions[id]

ApproveSelect ==
    /\ Turn("approve", "select")
    /\ \E ok \in BOOLEAN :
        /\ MayFail(ok)
        /\ CountFailure(ok)
        /\ IF ~ok
           THEN Respond(500)
           ELSE IF cur.completionId \notin DOMAIN db.challenge_completions
           THEN Respond(404)
           ELSE IF ApproveRejects(ApproveRow(cur.completionId), cur.approver_id) /= 0
           THEN Respond(ApproveRejects(ApproveRow(cur.completionId), cur.approver_id))
           ELSE Continue([cur EXCEPT !.completion = ApproveRow(cur.completionId),
                                     !.pc = "begin"])
    /\ NoDbChange
    /\ UNCHANGED <<challenges, insertId, arrived, settled>>

ApproveBegin ==
    /\ Turn("approve", "begin")
    /\ Begin("update")
    /\ UNCHANGED <<challenges, insertId, arrived, settled>>

\* variant of MarkApproved that flips the flag instead of setting it
MarkApprovedFlipped(id, approver_id) ==
    IF id \in DOMAIN db.challenge_completions
    THEN [db EXCEPT !.challenge_completions[id].approved = 1 - @,
                    !.challenge_completions[id].approved_by = approver_id]
    ELSE db

\* UPDATE challenge_completions SET approved = 1, approved_by = ? WHERE id = ?
MarkApproved(id, approver_id) ==
    IF id \in DOMAIN db.challenge_completions
    THEN [db EXCEPT !.challenge_completions[id].approved = 1,
                    !.challenge_completions[id].approved_by = approver_id]
    ELSE db

\* UPDATE users SET total_points = total_points + ? WHERE id = ?
AddUserPoints(user_id, points) ==
    IF user_id \in DOMAIN db.users
    THEN [db EXCEPT !.users[user_id] = @ + points]
    ELSE db

\* variant of AddGroupPoints whose WHERE clause has lost the user_id condition
AddGroupPointsAnyUser(group_id, user_id, points) ==
    [db EXCEPT !.group_users =
        [i \in DOMAIN db.group_users |->
            IF db.group_users[i].group_id = group_id
            THEN [db.group_users[i] EXCEPT !.points = @ + points]
            ELSE db.group_users[i]]]

\* UPDATE group_users SET points = points + ? WHERE user_id = ? AND group_id = ?
AddGroupPoints(group_id, user_id, points) ==
    [db EXCEPT !.group_users =
        [i \in DOMAIN db.group_users |->
            IF db.group_users[i].user_id = user_id /\ db.group_users[i].group_id = group_id
            THEN [db.group_users[i] EXCEPT !.points = @ + points]
            ELSE db.group_users[i]]]

\* a write of a handler's transaction: on error the handler queues a rollback
TxWrite(newDb, next) ==
    \E ok \in BOOLEAN :
        /\ MayFail(ok)
        /\ CountFailure(ok)
        /\ IF ~ok
           THEN /\ Continue([cur EXCEPT !.pc = "rollback"])
                /\ NoDbChange
           ELSE /\ Continue([cur EXCEPT !.pc = next])
                /\ Write(newDb)

ApproveUpdate ==
    /\ Turn("approve", "update")
    /\ TxWrite(MarkApproved(cur.completionId, SqlInt(cur.approver_id)), "points")
    /\ UNCHANGED <<challenges, insertId, arrived, settled>>

ApprovePoints ==
    /\ Turn("approve", "points")
    /\ TxWrite(AddUserPoints(cur.completion.user_id, cur.completion.points), "groupPoints")
    /\ UNCHANGED <<challenges, insertId, arrived, settled>>

ApproveGroupPoints ==
    /\ Turn("approve", "groupPoints")
    /\ TxWrite(AddGroupPoints(cur.completion.group_id, cur.completion.user_id,
                              cur.completion.points), "commit")
    /\ UNCHANGED <<challenges, insertId, arrived, settled>>

\* req.db.commit: on error the handler queues a rollback, else answers 200
\* variant of CommitAndAnswer whose commit error path sends no response
CommitWithoutAnswer ==
    \E ok \in BOOLEAN :
        /\ MayFail(ok)
        /\ CountFailure(ok)
        /\ IF ~ok
           THEN /\ queue' = Tail(queue)
                /\ res' = res
                /\ sent' = sent
                /\ NoDbChange
           ELSE /\ Respond(200)
                /\ Commit

CommitAndAnswer ==
    \E ok \in BOOLEAN :
        /\ MayFail(ok)
        /\ CountFailure(ok)
        /\ IF ~ok
           THEN /\ Continue([cur EXCEPT !.pc = "rollback"])
                /\ NoDbChange
           ELSE /\ Respond(200)
                /\ Commit

ApproveCommit ==
    /\ Turn("approve", "commit")
    /\ CommitAndAnswer
    /\ settled' = IF res'.status = 200
                  THEN [settled EXCEPT ![cur.completionId] = @ + 1]
                  ELSE settled
    /\ UNCHANGED <<challenges, insertId, arrived>>

ApproveRollback ==
    /\ Turn("approve", "rollback")
    /\ RollbackAndFail
    /\ UNCHANGED <<challenges, insertId, arrived, settled, failures>>

\* ---------------------------- DELETE /api/challenge-completions/:completionId
DeleteStart(id) ==
    /\ CanArrive
    /\ Accept([Idle EXCEPT !.op = "delete", !.pc = "select", !.completionId = id,
                           !.pre = db])
    /\ arrived' = arrived + 1
    /\ UNCHANGED <<challenges, db, saved, inTx, insertId, settled, failures>>

\* SELECT cc.*, c.points FROM challenge_completions cc JOIN challenges c ON ...
\* The driver returns a row as an object keyed by column name; the result has two
\* columns named points and the later one, c.points, is the one the object keeps.
JoinedRow(id) ==
    [db.challenge_completions[id] EXCEPT
        !.points = challenges[db.challenge_completions[id].challenge_id].points]

DeleteSelect ==
    /\ Turn("delete", "select")
    /\ \E ok \in BOOLEAN :
        /\ MayFail(ok)
        /\ CountFailure(ok)
        /\ IF ~ok
           THEN Respond(500)
           ELSE IF cur.completionId \notin DOMAIN db.challenge_completions
           THEN Respond(404)
           ELSE Continue([cur EXCEPT !.completion = JoinedRow(cur.completionId),
                                     !.user_id = JoinedRow(cur.completionId).user_id,
                                     !.points = JoinedRow(cur.completionId).points,
                                     !.pc = "begin"])
    /\ NoDbChange
    /\ UNCHANGED <<challenges, insertId, arrived, settled>>

DeleteBegin ==
    /\ Turn("delete", "begin")
    /\ Begin("delete")
    /\ UNCHANGED <<challenges, insertId, arrived, settled>>

\* DELETE FROM challenge_completions WHERE id = ?
RemoveCompletion(id) ==
    [db EXCEPT !.challenge_completions =
        [i \in DOMAIN db.challenge_completions \ {id} |-> db.challenge_completions[i]]]

\* UPDATE users SET total_points = total_points - ? WHERE id = ?
SubtractUserPoints(user_id, points) ==
    IF user_id \in DOMAIN db.users
    THEN [db EXCEPT !.users[user_id] = @ - points]
    ELSE db

DeleteRow ==
    /\ Turn("delete", "delete")
    /\ TxWrite(RemoveCompletion(cur.completionId), "points")
    /\ UNCHANGED <<challenges, insertId, arrived, settled>>

DeletePoints ==
    /\ Turn("delete", "points")
    /\ TxWrite(SubtractUserPoints(cur.user_id, cur.points), "commit")
    /\ UNCHANGED <<challenges, insertId, arrived, settled>>

DeleteCommit ==
    /\ Turn("delete", "commit")
    /\ CommitAndAnswer
    /\ UNCHANGED <<challenges, insertId, arrived, settled>>

DeleteRollback ==
    /\ Turn("delete", "rollback")
    /\ RollbackAndFail
    /\ UNCHANGED <<challenges, insertId, arrived, settled, failures>>

\* ---------------------------- GET /api/challenge-completions/group/:groupId
ListStart(g) ==
    /\ CanArrive
    /\ Accept([Idle EXCEPT !.op = "list", !.pc = "select", !.group_id = g, !.pre = db])
    /\ arrived' = arrived + 1
    /\ UNCHANGED <<challenges, db, saved, inTx, insertId, settled, failures>>

\* SELECT cc.*, ... FROM challenge_completions cc JOIN ... WHERE cc.group_id = ?
GroupCompletions(g) ==
    [id \in {i \in DOMAIN db.challenge_completions :
                db.challenge_completions[i].group_id = g} |-> db.challenge_completions[id]]

\* the query is answered: on error 500, else the rows are the response's body
ListSelect ==
    /\ Turn("list", "select")
    /\ \E ok \in BOOLEAN :
        /\ MayFail(ok)
        /\ CountFailure(ok)
        /\ queue' = Tail(queue)
        /\ res' = IF ok
                  THEN [Answer("list", 200, 0) EXCEPT
                           !.completions = GroupCompletions(cur.group_id)]
                  ELSE Answer("list", 500, 0)
        /\ sent' = sent + 1
    /\ NoDbChange
    /\ UNCHANGED <<challenges, insertId, arrived, settled>>

\* ------------------------------------------- POST /api/groups/:groupId/challenges
\* challenge_ids of the request body: an empty array, {2}, {1, 2}
ReplaceInputs == {{}, {2}, {1, 2}}

\* the challenges selected for group g in the tables d
SelectionOf(d, g) == {c \in ChallengeIds : <<g, c>> \in d.group_challenges}

ReplaceStart(g, ids) ==
    /\ CanArrive
    /\ IF ids = {}
       THEN /\ queue' = queue
            /\ res' = Answer("replace", 400, 0)
            /\ sent' = sent + 1
       ELSE Accept([Idle EXCEPT !.op = "replace", !.pc = "delete", !.group_id = g,
                                !.challenge_ids = ids, !.pre = db])
    /\ arrived' = arrived + 1
    /\ UNCHANGED <<challenges, db, saved, inTx, insertId, settled, failures>>

\* DELETE FROM group_challenges WHERE group_id = ?
DeleteSelection(g) == [db EXCEPT !.group_challenges = {p \in @ : p[1] /= g}]

\* INSERT INTO group_challenges (group_id, challenge_id) VALUES ?
InsertSelection(g, ids) == [db EXCEPT !.group_challenges = @ \cup {<<g, c>> : c \in ids}]

\* the DELETE is answered: on error 500, else the handler queues the INSERT
ReplaceDelete ==
    /\ Turn("replace", "delete")
    /\ \E ok \in BOOLEAN :
        /\ MayFail(ok)
        /\ CountFailure(ok)
        /\ IF ~ok
           THEN /\ Respond(500)
                /\ NoDbChange
           ELSE /\ Continue([cur EXCEPT !.pc = "insert"])
                /\ Write(DeleteSelection(cur.group_id))
    /\ UNCHANGED <<challenges, insertId, arrived, settled>>

\* the INSERT is answered: on error 500, else 200
ReplaceInsert ==
    /\ Turn("replace", "insert")
    /\ \E ok \in BOOLEAN :
        /\ MayFail(ok)
        /\ CountFailure(ok)
        /\ IF ~ok
           THEN /\ Respond(500)
                /\ NoDbChange
           ELSE /\ Respond(200)
                /\ Write(InsertSelection(cur.group_id, cur.challenge_ids))
    /\ UNCHANGED <<challenges, insertId, arrived, settled>>

\* ------------------------------------------------------- joining a group
\* game_groups.group_id, the alphanumeric code of a group
GroupCode == [g \in Groups |-> IF g = 1 THEN "AAA111" ELSE "BBB222"]

\* SELECT * FROM game_groups WHERE group_id = ?
GroupsByCode(code) == {g \in Groups : GroupCode[g] = code}

\* parseInt(group_id, 10): the number a string of digits spells, nothing (NaN)
\* for a string that does not start with a digit
ParseInt(x) == IF x = "2" THEN {2} ELSE IF x = "7" THEN {7} ELSE {}

\* SELECT * FROM group_invitations WHERE invite_code = ? AND expires_at > NOW():
\* the groups of the invitations found
InvitedTo(code) == IF code = "inv2" THEN {2} ELSE {}

\* what a join request can carry: user 3, not yet in group 2, or no user; the id
\* of group 2 or of no group; the code of group 2, its id as a string, the id of
\* no group as a string, or some other string; an invitation to group 2 or none
JoinUsers == {3, Missing}
JoinGroupIds == {2, 7}
JoinCodes == {"BBB222", "2", "7", "x"}
JoinInvites == {"inv2", "x"}

\* INSERT INTO group_users (group_id, user_id, role) VALUES (?, ?, "member")
AddMember(g, u) == [db EXCEPT !.group_users = Append(@, Member(g, u, "member"))]

\* the callback of SELECT * FROM group_users WHERE group_id = ? AND user_id = ?:
\* 500 on error, 409 when a row is found, else the INSERT is queued
CheckMembers ==
    /\ \E ok \in BOOLEAN :
        /\ MayFail(ok)
        /\ CountFailure(ok)
        /\ IF ~ok
           THEN Respond(500)
           ELSE IF \E i \in DOMAIN db.group_users :
                      /\ db.group_users[i].group_id = cur.group_id
                      /\ db.group_users[i].user_id = cur.user_id
           THEN Respond(409)
           ELSE Continue([cur EXCEPT !.pc = "insert"])
    /\ NoDbChange
    /\ UNCHANGED <<challenges, insertId, arrived, settled>>

\* the callback of the INSERT: 500 on error, else the handler goes on with `after`
\* ("done": it answers 200)
InsertMember(after) ==
    /\ \E ok \in BOOLEAN :
        /\ MayFail(ok)
        /\ CountFailure(ok)
        /\ IF ~ok
           THEN /\ Respond(500)
                /\ NoDbChange
           ELSE /\ IF after = "done" THEN Respond(200)
                                     ELSE Continue([cur EXCEPT !.pc = after])
                /\ Write(AddMember(cur.group_id, cur.user_id))
    /\ UNCHANGED <<challenges, insertId, arrived, settled>>

\* a join request arrives: 400 when a required field is missing
StartJoin(op, pc, g, u, code, valid) ==
    /\ CanArrive
    /\ IF ~valid
       THEN /\ queue' = queue
            /\ res' = Answer(op, 400, 0)
            /\ sent' = sent + 1
       ELSE Accept([Idle EXCEPT !.op = op, !.pc = pc, !.group_id = g, !.user_id = u,
                                !.code = code, !.pre = db])
    /\ arrived' = arrived + 1
    /\ UNCHANGED <<challenges, db, saved, inTx, insertId, settled, failures>>

\* a SELECT of the group or invitation is answered: 500 on error, 404 when
\* nothing is found, else the next command is queued for the group found
Lookup(found, next) ==
    /\ \E ok \in BOOLEAN :
        /\ MayFail(ok)
        /\ CountFailure(ok)
        /\ IF ~ok
           THEN Respond(500)
           ELSE IF found = {}
           THEN Respond(404)
           ELSE Continue([cur EXCEPT !.pc = next, !.group_id = CHOOSE g \in found : TRUE])
    /\ NoDbChange
    /\ UNCHANGED <<challenges, insertId, arrived, settled>>

\* POST /api/groups/:groupId/join
JoinStart(g, u) == StartJoin("join", "group", g, u, "", u /= Missing)

\* SELECT * FROM game_groups WHERE id = ?
JoinGroup ==
    /\ Turn("join", "group")
    /\ Lookup({cur.group_id} \cap Groups, "members")

JoinMembers == Turn("join", "members") /\ CheckMembers

JoinInsert == Turn("join", "insert") /\ InsertMember("done")

\* POST /api/groups/join (handleJoinGroup)
JoinCodeStart(code, u) ==
    StartJoin("joinCode", "group", 0, u, code, u /= Missing /\ code /= "")

\* the group is looked up by its code; when none has it and the code parses as a
\* number, by that id
JoinCodeGroup ==
    /\ Turn("joinCode", "group")
    /\ IF GroupsByCode(cur.code) = {} /\ ParseInt(cur.code) /= {}
       THEN Lookup(ParseInt(cur.code), "groupById")
       ELSE Lookup(GroupsByCode(cur.code), "members")

JoinCodeGroupById ==
    /\ Turn("joinCode", "groupById")
    /\ Lookup({cur.group_id} \cap Groups, "members")

\* continueWithGroup
JoinCodeMembers == Turn("joinCode", "members") /\ CheckMembers

JoinCodeInsert == Turn("joinCode", "insert") /\ InsertMember("updated")

\* the SELECT of the updated group: the handler answers 200 whether it fails or not
JoinCodeUpdated ==
    /\ Turn("joinCode", "updated")
    /\ \E ok \in BOOLEAN :
        /\ MayFail(ok)
        /\ CountFailure(ok)
    /\ Respond(200)
    /\ NoDbChange
    /\ UNCHANGED <<challenges, insertId, arrived, settled>>

\* POST /api/groups/join-by-invite
JoinInviteStart(code, u) ==
    StartJoin("joinInvite", "invitation", 0, u, code, u /= Missing /\ code /= "")

JoinInviteInvitation ==
    /\ Turn("joinInvite", "invitation")
    /\ Lookup(InvitedTo(cur.code), "members")

JoinInviteMembers == Turn("joinInvite", "members") /\ CheckMembers

JoinInviteInsert == Turn("joinInvite", "insert") /\ InsertMember("group")

\* SELECT * FROM game_groups WHERE id = ?: 500 on error, else 200
JoinInviteGroup ==
    /\ Turn("joinInvite", "group")
    /\ \E ok \in BOOLEAN :
        /\ MayFail(ok)
        /\ CountFailure(ok)
        /\ Respond(IF ok THEN 200 ELSE 500)
    /\ NoDbChange
    /\ UNCHANGED <<challenges, insertId, arrived, settled>>

\* ------------------------------------------------------------ specifications
\* the callback of the command at the head of the connection's queue runs
Step ==
    \/ SubmitSelectChallenge
    \/ SubmitCheck
    \/ SubmitBegin
    \/ SubmitInsert
    \/ SubmitRollback
    \/ ApproveSelect
    \/ ApproveBegin
    \/ ApproveUpdate
    \/ ApprovePoints
    \/ ApproveGroupPoints
    \/ ApproveCommit
    \/ ApproveRollback
    \/ DeleteSelect
    \/ DeleteBegin
    \/ DeleteRow
    \/ DeletePoints
    \/ DeleteCommit
    \/ DeleteRollback

\* ids a request can name: those handed out so far and the next one
TargetIds == 1..insertId

\* a request arrives
Arrive ==
    \/ \E g \in GroupInputs, u \in SubmitterInputs, c \in ChallengeInputs : SubmitStart(g, u, c)
    \/ \E id \in TargetIds, a \in UserInputs : ApproveStart(id, a)
    \/ \E id \in TargetIds : DeleteStart(id)

Catalog == \E c \in Editable, p \in PointValues : EditCatalog(c, p)

\* requests arrive at any time and their queries interleave on the connection
Next == Arrive \/ Step \/ Catalog

Spec == Init /\ [][Next]_vars

\* requests are handled one at a time: a request arrives when none is in flight
NextSerial == (queue = << >> /\ Arrive) \/ Step \/ Catalog

SerialSpec == Init /\ [][NextSerial]_vars

\* the bodies a client of the HTTP interface can send: any user as submitter or
\* approver, approver_id as a number or as a string of digits, any challenge
AnySubmitter == {1, 2, Missing}
AnyApprover == {Num(1), Num(2), Num(3), Str(1), Undefined}
AnyChallenge == ChallengeIds \cup {Missing, 4}

ArriveAny ==
    \/ \E g \in GroupInputs, u \in AnySubmitter, c \in AnyChallenge : SubmitStart(g, u, c)
    \/ \E id \in TargetIds, a \in AnyApprover : ApproveStart(id, a)
    \/ \E id \in TargetIds : DeleteStart(id)

\* one request at a time, with any body
NextApi == (queue = << >> /\ ArriveAny) \/ Step \/ Catalog

ApiSpec == Init /\ [][NextApi]_vars

\* user 1 submits in group 1; users 2 and 3, members of the group, approve; the
\* requests arrive at any time
ArriveApprovers ==
    \/ \E c \in {1, 2} : SubmitStart(1, 1, c)
    \/ \E id \in TargetIds, a \in {Num(2), Num(3)} : ApproveStart(id, a)
    \/ \E id \in TargetIds : DeleteStart(id)

NextApprovers == ArriveApprovers \/ Step

ApproversSpec == Init /\ [][NextApprovers]_vars

\* the challenge selection of group 1 is replaced between the requests of the
\* completion routes, one request at a time
ArriveReplace == \E ids \in ReplaceInputs : ReplaceStart(1, ids)

StepReplace == ReplaceDelete \/ ReplaceInsert

NextSelection == (queue = << >> /\ (Arrive \/ ArriveReplace)) \/ Step \/ StepReplace

SelectionSpec == Init /\ [][NextSelection]_vars

\* the completions of group 1 are listed while other requests are in flight
ArriveList == ListStart(1)

NextRead == Arrive \/ ArriveList \/ Step \/ ListSelect

ReadSpec == Init /\ [][NextRead]_vars

\* join requests of the three routes arrive at any time
ArriveJoin ==
    \/ \E g \in JoinGroupIds, u \in JoinUsers : JoinStart(g, u)
    \/ \E code \in JoinCodes, u \in JoinUsers : JoinCodeStart(code, u)
    \/ \E code \in JoinInvites, u \in JoinUsers : JoinInviteStart(code, u)

StepJoin ==
    \/ JoinGroup
    \/ JoinMembers
    \/ JoinInsert
    \/ JoinCodeGroup
    \/ JoinCodeGroupById
    \/ JoinCodeMembers
    \/ JoinCodeInsert
    \/ JoinCodeUpdated
    \/ JoinInviteInvitation
    \/ JoinInviteMembers
    \/ JoinInviteInsert
    \/ JoinInviteGroup

NextJoin == ArriveJoin \/ StepJoin

JoinSpec == Init /\ [][NextJoin]_vars

\* ------------------------------------------------------------------ claims
\* the completion row a request in flight names, as the connection sees it now
Exists(id) == id \in DOMAIN db.challenge_completions
Row(id) == db.challenge_completions[id]

\* the group_users rows WHERE user_id = u AND group_id = g, in the tables d, and the
\* balance of the pair when it has one row
MemberRows(d, g, u) ==
    {i \in DOMAIN d.group_users :
        d.group_users[i].user_id = u /\ d.group_users[i].group_id = g}
GroupPoints(d, g, u) == d.group_users[CHOOSE i \in MemberRows(d, g, u) : TRUE].points

\* this step runs the callback of step pc of handler op
Runs(op, pc) == Turn(op, pc) /\ queue' /= queue /\ arrived' = arrived

\* the command answered in this step did not fail
NoError == failures' = failures

\* C1: when Approve requests of one pending completion interleave (no command
\* fails), at most one of them answers 200, and once they have ended the
\* submitter's total and group balance hold the completion's points once.
C1_OneApproveWins ==
    failures = 0 =>
        /\ \A id \in CompletionIds : settled[id] <= 1
        /\ (queue = << >> /\ insertId = 2 /\ Exists(1) /\ Row(1).approved = 1) =>
              /\ db.users[Row(1).user_id] = Row(1).points
              /\ MemberRows(db, Row(1).group_id, Row(1).user_id) /= {} =>
                    GroupPoints(db, Row(1).group_id, Row(1).user_id) = Row(1).points

\* C2: once an Approve of a completion has answered 200, no Approve of it
\* answers 200 again, and every later Approve of it (the completion still
\* existing) answers 409, writes nothing and queues nothing more.
C2_SecondApproveRejected ==
    /\ [](\A id \in CompletionIds : settled[id] <= 1)
    /\ [][(/\ Runs("approve", "select")
           /\ settled[cur.completionId] >= 1
           /\ Exists(cur.completionId)
           /\ NoError)
          => (/\ res' = Answer("approve", 409, cur.completionId)
              /\ db' = db
              /\ saved' = saved
              /\ queue' = Tail(queue))]_vars

C2_Witness ==
    /\ res.op = "approve" /\ res.status = 409
    /\ settled[res.completion_id] = 1
    /\ Exists(res.completion_id)
    /\ db.users[Row(res.completion_id).user_id] = Row(res.completion_id).points

\* C3: an Approve one of whose three writes, or whose commit, has failed answers
\* 500 and leaves the tables as the request found them: the completion pending
\* with no approver, both balances at their values before the request.
C3_FailedApproveLeavesNothing ==
    [][Runs("approve", "rollback")
          => (/\ res'.status = 500
              /\ db' = cur.pre
              /\ db'.challenge_completions[cur.completionId].approved = 0
              /\ db'.challenge_completions[cur.completionId].approved_by = 0)]_vars

\* an Approve has written, a later command of it has failed, the rollback is queued
C3_Witness ==
    /\ Turn("approve", "rollback")
    /\ Row(cur.completionId).approved = 1
    /\ db.users /= cur.pre.users

\* C4: a non-repeatable challenge has at most one completion row per
\* (group, user, challenge), in every reachable state.
C4_NonRepeatableOnce ==
    \A g \in Groups, u \in Users, c \in ChallengeIds :
        challenges[c].ripetibile /= "y" => Cardinality(CompletionsOf(g, u, c)) <= 1

\* C5: a Submit of a non-repeatable challenge that finds a completion of it by
\* the same user in the same group, pending or approved, answers 409, creates
\* no completion and leaves every existing row as it is.
C5_DuplicateRejected ==
    [][(/\ Runs("submit", "check")
        /\ challenges[cur.challenge_id].ripetibile /= "y"
        /\ CompletionsOf(cur.group_id, cur.user_id, cur.challenge_id) /= {}
        /\ NoError)
       => (/\ res'.op = "submit" /\ res'.status = 409
           /\ db' = db
           /\ insertId' = insertId
           /\ queue' = Tail(queue))]_vars

\* a Submit was refused while the earlier completion of the challenge is pending
C5_Witness ==
    /\ res.op = "submit" /\ res.status = 409
    /\ \E id \in DOMAIN db.challenge_completions :
          /\ Row(id).approved = 0
          /\ challenges[Row(id).challenge_id].ripetibile /= "y"

\* the row a request in flight names, as the tables were when the request arrived
PreRow == cur.pre.challenge_completions[cur.completionId]
PreMember == MemberRows(cur.pre, PreRow.group_id, PreRow.user_id) /= {}

\* C6: an Approve that answers 200 has changed the tables it found in exactly
\* this way, and committed it: the completion has approved = 1 and approved_by =
\* the approver, the submitter's total_points is higher by the completion's
\* points, and so is the submitter's group_users row of the completion's group
\* (when there is one); every other row and balance is as it was.
C6_ApproveEffect ==
    [][(Runs("approve", "commit") /\ NoError)
       => (/\ res' = Answer("approve", 200, cur.completionId)
           /\ db'.challenge_completions =
                 [cur.pre.challenge_completions EXCEPT
                     ![cur.completionId].approved = 1,
                     ![cur.completionId].approved_by = SqlInt(cur.approver_id)]
           /\ db'.users = [cur.pre.users EXCEPT ![PreRow.user_id] = @ + PreRow.points]
           /\ db'.group_users =
                 [i \in DOMAIN cur.pre.group_users |->
                     IF i \in MemberRows(cur.pre, PreRow.group_id, PreRow.user_id)
                     THEN [cur.pre.group_users[i] EXCEPT !.points = @ + PreRow.points]
                     ELSE cur.pre.group_users[i]]
           /\ db'.group_challenges = cur.pre.group_challenges
           /\ saved' = db'
           /\ ~inTx')]_vars

\* an Approve of a member's completion has answered 200
C6_Witness ==
    /\ res.op = "approve" /\ res.status = 200
    /\ Exists(res.completion_id)
    /\ Row(res.completion_id).approved = 1
    /\ Row(res.completion_id).approved_by = 2
    /\ db.users[1] = Row(res.completion_id).points
    /\ GroupPoints(db, 1, 1) = Row(res.completion_id).points
    /\ GroupPoints(db, 1, 2) = 0

\* C7: the points of a completion are the catalog value its Submit read; the
\* row's points never change afterwards, whatever happens to the catalog, and
\* Approve adds exactly the row's points to the total and to the group balance.
C7_CapturedPoints ==
    [][/\ \A id \in DOMAIN db.challenge_completions \cap DOMAIN db'.challenge_completions :
             db'.challenge_completions[id].points = Row(id).points
       /\ (Runs("submit", "challenge") /\ queue' /= Tail(queue))
             => queue'[Len(queue')].points = challenges[cur.challenge_id].points
       /\ (Runs("submit", "insert") /\ NoError)
             => db'.challenge_completions[insertId].points = cur.points
       /\ (Runs("approve", "points") /\ NoError /\ Exists(cur.completionId))
             => db'.users[Row(cur.completionId).user_id]
                   = db.users[Row(cur.completionId).user_id] + Row(cur.completionId).points
       /\ (Runs("approve", "groupPoints") /\ NoError /\ Exists(cur.completionId)
              /\ MemberRows(db, cur.completion.group_id, cur.completion.user_id) /= {})
             => GroupPoints(db', cur.completion.group_id, cur.completion.user_id)
                   = GroupPoints(db, cur.completion.group_id, cur.completion.user_id)
                     + Row(cur.completionId).points]_vars

\* a completion was approved and credited with its own points while the catalog
\* gives its challenge another value
C7_Witness ==
    /\ res.op = "approve" /\ res.status = 200
    /\ Exists(res.completion_id)
    /\ Row(res.completion_id).approved = 1
    /\ challenges[Row(res.completion_id).challenge_id].points
          /= Row(res.completion_id).points
    /\ db.users[1] = Row(res.completion_id).points
    /\ GroupPoints(db, 1, 1) = Row(res.completion_id).points

\* C8: a Delete of a completion that is pending removes the row and changes no
\* balance.
C8_DeletePendingKeepsBalances ==
    [][(Runs("delete", "commit") /\ NoError /\ PreRow.approved = 0)
       => (/\ cur.completionId \notin DOMAIN db'.challenge_completions
           /\ db'.users = cur.pre.users
           /\ db'.group_users = cur.pre.group_users)]_vars

\* C9: a Delete of an approved completion lowers the submitter's total by the
\* points stored on the completion.
C9_DeleteSubtractsCaptured ==
    [][(Runs("delete", "commit") /\ NoError /\ PreRow.approved = 1)
       => db'.users = [cur.pre.users EXCEPT ![PreRow.user_id] = @ - PreRow.points]]_vars

\* C10: a Delete of an approved completion takes back what its Approve added:
\* the completion's points from the submitter's total and from the submitter's
\* balance in the completion's group.
C10_DeleteReversesApprove ==
    [][(Runs("delete", "commit") /\ NoError /\ PreRow.approved = 1 /\ PreMember)
       => (/\ db'.users[PreRow.user_id] = cur.pre.users[PreRow.user_id] - PreRow.points
           /\ GroupPoints(db', PreRow.group_id, PreRow.user_id)
                 = GroupPoints(cur.pre, PreRow.group_id, PreRow.user_id) - PreRow.points)]_vars

\* C11: an Approve whose approver_id names the completion's own submitter is
\* refused, whatever the submitter's role in the group: it answers an error,
\* writes nothing and queues nothing more, so the completion stays as it was.
C11_SelfApprovalRejected ==
    [][(/\ Runs("approve", "select")
        /\ NoError
        /\ Exists(cur.completionId)
        /\ SqlInt(cur.approver_id) = Row(cur.completionId).user_id)
       => (/\ res'.op = "approve" /\ res'.status \in {400, 409}
           /\ queue' = Tail(queue)
           /\ db' = db)]_vars

\* C12: a completion's approved flag never goes from 1 back to 0: once a commit
\* has made approved = 1 durable, the row has approved = 1 for as long as it
\* exists, in the committed tables and in what the connection sees, whatever
\* Submit, Approve and Delete requests do and whichever of them fail.
C12_ApprovedStaysApproved ==
    [][\A id \in DOMAIN saved.challenge_completions :
          saved.challenge_completions[id].approved = 1
             => /\ id \in DOMAIN saved'.challenge_completions
                      => saved'.challenge_completions[id].approved = 1
                /\ id \in DOMAIN db'.challenge_completions
                      => db'.challenge_completions[id].approved = 1]_vars

\* a completion was approved and committed, and a second Approve of it that had
\* also written the row failed and was rolled back
C12_Witness ==
    /\ res.op = "approve" /\ res.status = 500
    /\ failures = 1
    /\ settled[res.completion_id] = 1
    /\ res.completion_id \in DOMAIN saved.challenge_completions
    /\ saved.challenge_completions[res.completion_id].approved = 1
    /\ Exists(res.completion_id)
    /\ Row(res.completion_id).approved = 1
    /\ queue = << >>

\* C13: the approver an Approve has recorded on a completion is never replaced
\* by another: no step of a later or concurrent Approve changes approved_by
\* from one user to a different one (a rollback may clear it).
C13_ApproverRecordedOnce ==
    [][\A id \in DOMAIN db.challenge_completions \cap DOMAIN db'.challenge_completions :
          Row(id).approved_by /= 0
             => db'.challenge_completions[id].approved_by \in {0, Row(id).approved_by}]_vars

\* C14: an Approve that answers 200 for a completion of a penalty challenge
\* (status negative) leaves the submitter's total, and the submitter's balance
\* in the completion's group, lower by the completion's points than the request
\* found them.
C14_PenaltyLowersBalances ==
    [][(/\ Runs("approve", "commit")
        /\ NoError
        /\ challenges[PreRow.challenge_id].status = "negative")
       => (/\ db'.users[PreRow.user_id] = cur.pre.users[PreRow.user_id] - PreRow.points
           /\ PreMember =>
                 GroupPoints(db', PreRow.group_id, PreRow.user_id)
                    = GroupPoints(cur.pre, PreRow.group_id, PreRow.user_id) - PreRow.points)]_vars

\* C15: a Submit creates a completion and answers 201 only for a challenge that
\* exists and whose active flag is on: no step of a Submit naming a challenge
\* that is switched off adds a row or answers 201.
C15_OnlyActiveChallenges ==
    [][(\E pc \in {"challenge", "check", "begin", "insert"} : Runs("submit", pc))
       => \/ /\ cur.challenge_id \in DOMAIN challenges
             /\ challenges[cur.challenge_id].is_active = 1
          \/ /\ db'.challenge_completions = db.challenge_completions
             /\ ~(res'.op = "submit" /\ res'.status = 201 /\ res' /= res)]_vars

\* C16: a challenge that is not in the group's selected set cannot be completed
\* in that group: after the set was replaced (no command having failed), no
\* step of a Submit naming a challenge left out of it adds a row or answers 201.
C16_OnlySelectedChallenges ==
    [][(/\ \E pc \in {"challenge", "check", "begin", "insert"} : Runs("submit", pc)
        /\ failures' = 0)
       => \/ <<cur.group_id, cur.challenge_id>> \in db.group_challenges
          \/ cur.challenge_id \notin ChallengeIds
          \/ /\ db'.challenge_completions = db.challenge_completions
             /\ ~(res'.op = "submit" /\ res'.status = 201 /\ res' /= res)]_vars

\* C18: when a request that replaces a group's challenge selection ends, with
\* success or with an error at either command, the group's selection is the
\* one the request found or the one it asked for.
C18_ReplaceIsAtomic ==
    [][((Runs("replace", "delete") \/ Runs("replace", "insert")) /\ queue' = Tail(queue))
       => SelectionOf(db', cur.group_id)
             \in {SelectionOf(cur.pre, cur.group_id), cur.challenge_ids}]_vars

\* C17: the step on which a Submit answers 201 adds exactly one row, with the
\* request's group, user and challenge, approved = 0 and no approver, under the
\* id the response carries; that step and every earlier step of the Submit
\* leave every other row, every total and every group balance as they were.
C17_SubmitEffect ==
    [][/\ (Runs("submit", "insert") /\ NoError)
          => (/\ res' = Answer("submit", 201, insertId)
              /\ insertId \notin DOMAIN db.challenge_completions
              /\ DOMAIN db'.challenge_completions
                    = DOMAIN db.challenge_completions \cup {insertId}
              /\ \A id \in DOMAIN db.challenge_completions :
                    db'.challenge_completions[id] = Row(id)
              /\ db'.challenge_completions[insertId].group_id = cur.group_id
              /\ db'.challenge_completions[insertId].user_id = cur.user_id
              /\ db'.challenge_completions[insertId].challenge_id = cur.challenge_id
              /\ db'.challenge_completions[insertId].approved = 0
              /\ db'.challenge_completions[insertId].approved_by = 0)
       /\ (\E pc \in {"challenge", "check", "begin", "insert"} : Runs("submit", pc))
          => (/\ db'.users = db.users
              /\ db'.group_users = db.group_users
              /\ \/ Runs("submit", "insert") /\ NoError
                 \/ db'.challenge_completions = db.challenge_completions)]_vars

\* a Submit answered 201 with a pending completion while the submitter holds
\* the points of an earlier, approved one
C17_Witness ==
    /\ res.op = "submit" /\ res.status = 201
    /\ Exists(res.completion_id)
    /\ Row(res.completion_id).approved = 0
    /\ Row(res.completion_id).approved_by = 0
    /\ db.users[Row(res.completion_id).user_id] > 0
    /\ GroupPoints(db, 1, 1) > 0

\* an Approve in flight has marked its completion and not yet added the points
\* to both balances; a Delete in flight has removed its row and not yet
\* subtracted the points
HalfApproved(id) ==
    \E i \in 1..Len(queue) :
        /\ queue[i].op = "approve" /\ queue[i].completionId = id
        /\ queue[i].pc \in {"points", "groupPoints"}
HalfDeleted(id) ==
    \E i \in 1..Len(queue) :
        /\ queue[i].op = "delete" /\ queue[i].completionId = id /\ queue[i].pc = "points"

\* C19: a listing never shows the partial state of an Approve or Delete in
\* flight: it does not show a completion as approved that no Approve has yet
\* answered for while its points are still to be added, and it does not omit a
\* completion whose Delete has still to subtract the points.
C19_NoPartialStateListed ==
    [][(Runs("list", "select") /\ NoError)
       => \A id \in CompletionIds :
             /\ (id \in DOMAIN res'.completions /\ res'.completions[id].approved = 1
                    /\ settled[id] = 0)
                   => ~HalfApproved(id)
             /\ (id \in DOMAIN saved.challenge_completions
                    /\ saved.challenge_completions[id].group_id = cur.group_id
                    /\ id \notin DOMAIN res'.completions)
                   => ~HalfDeleted(id)]_vars

\* C20: group_users has at most one row per (group, user), in every reachable
\* state, join requests of the three routes interleaving included.
C20_OneMembershipRow ==
    \A g \in Groups, u \in Users : Cardinality(MemberRows(db, g, u)) <= 1

\* C21: a Submit whose body lacks group_id, user_id or challenge_id is answered
\* 400 on arrival, and a Submit whose challenge id has no row in challenges is
\* answered 404 by the callback of the challenge query; neither step creates a
\* completion or changes a table, and the request queues nothing more.
C21_SubmitRejectsBadInput ==
    [][/\ \A g \in GroupInputs, u \in SubmitterInputs, c \in ChallengeInputs :
            ((g = Missing \/ u = Missing \/ c = Missing) /\ SubmitStart(g, u, c))
               => (/\ res' = Answer("submit", 400, 0)
                   /\ sent' = sent + 1
                   /\ queue' = queue
                   /\ db' = db /\ saved' = saved /\ insertId' = insertId)
       /\ (Runs("submit", "challenge") /\ NoError
              /\ cur.challenge_id \notin DOMAIN challenges)
             => (/\ res' = Answer("submit", 404, 0)
                 /\ queue' = Tail(queue)
                 /\ db' = db /\ saved' = saved /\ insertId' = insertId)]_vars

\* a Submit of an unknown challenge was answered 404 while a completion is
\* approved and its points are on the submitter's total
C21_Witness ==
    /\ res = Answer("submit", 404, 0)
    /\ \E id \in DOMAIN db.challenge_completions :
          Row(id).approved = 1 /\ db.users[Row(id).user_id] /= 0

\* C22: Approve answers 400 when the body has no approver_id, 404 when the
\* completion has no row, and 409 both when the completion is already approved
\* and when the approver is the completion's submitter.
C22_ApproveErrorKinds ==
    [][/\ \A id \in CompletionIds :
            ApproveStart(id, Undefined) => res' = Answer("approve", 400, id)
       /\ (Runs("approve", "select") /\ NoError /\ ~Exists(cur.completionId))
             => res' = Answer("approve", 404, cur.completionId)
       /\ (Runs("approve", "select") /\ NoError /\ Exists(cur.completionId)
              /\ (\/ Row(cur.completionId).approved = 1
                  \/ StrictEquals(Row(cur.completionId).user_id, cur.approver_id)))
             => res' = Answer("approve", 409, cur.completionId)]_vars

\* C23: a Submit whose INSERT succeeds answers 201 with the id of the new
\* completion and, in the body's points field, the points captured for it.
C23_SubmitAnswersPoints ==
    [][(Runs("submit", "insert") /\ NoError)
       => (/\ res'.op = "submit" /\ res'.status = 201
           /\ res'.completion_id = insertId
           /\ res'.points = Num(cur.points))]_vars

\* the sum of the captured points of the completions ids of the tables d
RECURSIVE SumPoints(_, _)
SumPoints(d, ids) ==
    IF ids = {}
    THEN 0
    ELSE LET id == CHOOSE i \in ids : TRUE
         IN  d.challenge_completions[id].points + SumPoints(d, ids \ {id})

\* the approved completions of user u that exist in the tables d, and those of
\* them made in group g
ApprovedOf(d, u) ==
    {id \in DOMAIN d.challenge_completions :
        /\ d.challenge_completions[id].user_id = u
        /\ d.challenge_completions[id].approved = 1}
ApprovedIn(d, g, u) ==
    {id \in ApprovedOf(d, u) : d.challenge_completions[id].group_id = g}

\* C24: whenever no request is in flight and no command has failed, each user's
\* total_points (0 at the start) is the sum of the captured points of the
\* user's approved completions that exist.
C24_TotalIsSumOfApproved ==
    (queue = << >> /\ failures = 0)
       => \A u \in Users : db.users[u] = SumPoints(db, ApprovedOf(db, u))

\* C25: whenever no request is in flight and no command has failed, the balance
\* of each (group, user) (0 at the start, and 0 for a pair with no group_users
\* row) is the sum of the captured points of the user's approved completions of
\* that group that exist.
C25_GroupBalanceIsSumOfApproved ==
    (queue = << >> /\ failures = 0)
       => \A g \in Groups, u \in Users :
             SumPoints(db, ApprovedIn(db, g, u))
                = IF MemberRows(db, g, u) = {} THEN 0 ELSE GroupPoints(db, g, u)

\* C26: an Approve whose completion a concurrent Delete has removed credits no
\* points for it (no command failing): it adds nothing to users.total_points unless that Delete is
\* still to subtract the points (so that the net effect is zero), and it adds
\* nothing to a group balance, which no Delete takes back.
C26_NoCreditForDeletedCompletion ==
    [][/\ (Runs("approve", "points") /\ failures' = 0 /\ ~Exists(cur.completionId))
             => (db'.users = db.users \/ HalfDeleted(cur.completionId))
       /\ (Runs("approve", "groupPoints") /\ failures' = 0 /\ ~Exists(cur.completionId))
             => db'.group_users = db.group_users]_vars

\* C27: the rollback of a failing request takes back none of the writes of
\* another request that reports success: when an Approve answers 200 and its
\* completion exists, the approved = 1 and approved_by it wrote are in the row.
C27_RollbackSparesOtherRequests ==
    [][(Runs("approve", "commit") /\ res'.op = "approve" /\ res'.status = 200
          /\ Exists(cur.completionId))
       => (/\ cur.completionId \in DOMAIN db'.challenge_completions
           /\ db'.challenge_completions[cur.completionId].approved = 1
           /\ db'.challenge_completions[cur.completionId].approved_by /= 0)]_vars

\* C28: no transaction is left open between requests, and what a request has
\* acknowledged is committed: whenever no request is in flight, the connection
\* has no open transaction and every write it has seen is committed.
C28_NoOpenTransactionBetweenRequests ==
    queue = << >> => (~inTx /\ saved = db)

\* C29: in every state, a completion with approved = 1 has an approver and the
\* approver is not its submitter, and a completion with approved = 0 has no
\* approver.
C29_ApproverMatchesStatus ==
    \A id \in DOMAIN db.challenge_completions :
        IF Row(id).approved = 1
        THEN Row(id).approved_by /= 0 /\ Row(id).approved_by /= Row(id).user_id
        ELSE Row(id).approved_by = 0

\* one request at a time, the connection answering every command it is sent:
\* the callback of the command at the head of the queue is eventually run
FairSpec == Init /\ [][NextSerial]_vars /\ WF_vars(Step)

\* C30: as long as the database answers every command, every request is
\* answered exactly once: the responses sent and the requests in flight always
\* add up to the requests that have arrived, and the n-th request to arrive is
\* followed by an n-th response, on the error paths of the queries, of the
\* transaction start, of the commit and of the rollback as on the others.
C30_EveryRequestAnswered ==
    /\ [](sent + Len(queue) = arrived)
    /\ \A n \in 1..MaxRequests : (arrived >= n) ~> (sent >= n)

\* every request that arrived has been answered, the last one with an error
\* after a command had failed
C30_Witness ==
    /\ queue = << >> /\ arrived >= 2 /\ sent = arrived
    /\ failures > 0 /\ res.status = 500

====
